---- MODULE Spec2Model ----
(***************************************************************************)
(* Model of tutorials/my_first_opengin_app.py: the two-phase ingestion of  *)
(* tabular data into the OpenGIN graph store.                              *)
(*                                                                         *)
(* Representation:                                                         *)
(*  - an identifier is a sequence of one-character strings, so that        *)
(*    str.lower() and the f-string of the relationship id are computed;    *)
(*  - a DataFrame is [columns |-> sequence of names, rows |-> sequence of  *)
(*    records]; a file of the data directory is [present, data];           *)
(*  - a dict with optional keys (the payload) is a function whose DOMAIN   *)
(*    is the set of keys present;                                          *)
(*  - an optional value (None or a dict) is a sequence of length 0 or 1;   *)
(*  - a response text is a sequence of words, and `needle in text` is the  *)
(*    contiguous-subsequence test.                                         *)
(***************************************************************************)
EXTENDS Integers, Sequences, FiniteSets, TLC

VARIABLES
  files,               \* the data directory: one [present, data] per file
  command,             \* args.command of the current process
  pc,                  \* where the current process is
  entities, relationships, expenses, income, metadata,   \* what load_data returned
  i,                   \* position of the running loop in the entity table
  entities_with_rels,  \* relationships["from_id"].unique()
  clock,               \* datetime.now(), in ticks since the process started
  sent,                \* the requests the current process has issued, in order
  last,                \* the latest request's method, outcome and returned value
  store,               \* the entity identifiers the remote store holds
  store_at_start,      \* the store when the current process started
  ingested,            \* an earlier process has completed ingest_data
  p1_ideal,            \* so far every create was accepted when the entity was
                       \* new and rejected as "already exists" when it was not
  encoded              \* a call of create_tabular_attribute: arguments, result

vars == <<files, command, pc, entities, relationships, expenses, income,
          metadata, i, entities_with_rels, clock, sent, last, store,
          store_at_start, ingested, p1_ideal, encoded>>

-----------------------------------------------------------------------------
(* Bounds of the model *)

MaxEntities == 2

MaxRels == 2

MaxRows == 1

MaxEncodeRows == 2

-----------------------------------------------------------------------------
(* Strings *)

Ids == {<<"A">>, <<"B">>}

LowerChar(c) ==
  CASE c = "A" -> "a"
    [] c = "B" -> "b"
    [] OTHER -> c

Lower(s) == [k \in 1..Len(s) |-> LowerChar(s[k])]

RECURSIVE IntToStr(_)
IntToStr(n) ==
  LET d == <<"0", "1", "2", "3", "4", "5", "6", "7", "8", "9">>[(n % 10) + 1]
  IN IF n < 10 THEN <<d>> ELSE Append(IntToStr(n \div 10), d)

IsInfix(needle, text) ==
  \E k \in 0..(Len(text) - Len(needle)) :
    \A j \in 1..Len(needle) : text[k + j] = needle[j]

SeqsUpTo(S, n) == UNION {[1..k -> S] : k \in 0..n}

Range(s) == {s[k] : k \in 1..Len(s)}

-----------------------------------------------------------------------------
(* The data directory *)

EmptyDataFrame == [columns |-> <<>>, rows |-> <<>>]

IsEmpty(df) == Len(df.rows) = 0 \/ Len(df.columns) = 0

EntityColumns == <<"id", "name", "start_time", "kind_major", "kind_minor">>

EntityRows ==
  {[id |-> e, name |-> Lower(e), start_time |-> "2024-01-01",
    kind_major |-> IF e = <<"A">> THEN "Person" ELSE "Organisation",
    kind_minor |-> IF e = <<"A">> THEN "Citizen" ELSE "Company"] : e \in Ids}

RelationshipColumns == <<"from_id", "to_id", "relation", "start_time">>

Relations == {"knows", "likes"}

RelationshipRowsOf(relations) ==
  {[from_id |-> f, to_id |-> t, relation |-> r, start_time |-> "2024-02-01"] :
     f \in Ids, t \in Ids, r \in relations}

ExpenseColumns == <<"RelatedEntityID", "Month", "Category", "Amount">>

ExpenseRows ==
  {[RelatedEntityID |-> e, Month |-> "Jan", Category |-> "Food", Amount |-> 12] :
     e \in Ids}

IncomeColumns == <<"RelatedEntityID", "Month", "Source", "Amount">>

IncomeRows ==
  {[RelatedEntityID |-> e, Month |-> "Jan", Source |-> "Salary", Amount |-> 300] :
     e \in Ids}

EmptyDict == [e \in {} |-> <<>>]

MetadataDocs ==
  {EmptyDict,
   [e \in {<<"A">>} |-> <<[key |-> "role", value |-> "admin"],
                          [key |-> "team", value |-> "core"]>>]}

Missing(empty) == [present |-> FALSE, data |-> empty]

CsvFiles(columns, rows, n) ==
  {Missing(EmptyDataFrame)} \cup
  {[present |-> TRUE, data |-> [columns |-> columns, rows |-> t]] :
     t \in SeqsUpTo(rows, n)}

Present(data) == [present |-> TRUE, data |-> data]

(* The optional files of the runs against the store: all there, or all    *)
(* missing.                                                                *)
OptionalFiles ==
  LET exp == Present([columns |-> ExpenseColumns,
                      rows |-> <<CHOOSE r \in ExpenseRows : r.RelatedEntityID = <<"A">>>>])
      inc == Present([columns |-> IncomeColumns,
                      rows |-> <<CHOOSE r \in IncomeRows : r.RelatedEntityID = <<"B">>>>])
      md == Present(CHOOSE m \in MetadataDocs : m # EmptyDict)
  IN {[expenses |-> exp, income |-> inc, metadata |-> md],
      [expenses |-> Missing(EmptyDataFrame), income |-> Missing(EmptyDataFrame),
       metadata |-> Missing(EmptyDict)]}

(* The data directories of the runs over the attribute tables: each       *)
(* mandatory file is there or missing, the relationship table has no row,  *)
(* one row, or two rows between the same entities, each attribute file is  *)
(* missing, a table of at most MaxRows rows, or a table without the        *)
(* RelatedEntityID column.                                                 *)
Unkeyed(columns, rows) ==
  LET r == CHOOSE x \in rows : TRUE
  IN Present([columns |-> Tail(columns),
              rows |-> <<[c \in Range(Tail(columns)) |-> r[c]]>>])

TableDirs ==
  {[entities |-> e, relationships |-> r, expenses |-> x, income |-> n,
    metadata |-> m] :
     e \in CsvFiles(EntityColumns, EntityRows, MaxEntities),
     r \in {Missing(EmptyDataFrame)} \cup
           {Present([columns |-> RelationshipColumns, rows |-> t]) :
              t \in {<<>>,
                     <<[from_id |-> <<"A">>, to_id |-> <<"B">>,
                        relation |-> "knows", start_time |-> "2024-02-01"]>>,
                     <<[from_id |-> <<"A">>, to_id |-> <<"B">>,
                        relation |-> "knows", start_time |-> "2024-02-01"],
                       [from_id |-> <<"A">>, to_id |-> <<"B">>,
                        relation |-> "likes", start_time |-> "2024-02-01"]>>}},
     x \in CsvFiles(ExpenseColumns, ExpenseRows, MaxRows)
             \cup {Unkeyed(ExpenseColumns, ExpenseRows)},
     n \in CsvFiles(IncomeColumns, IncomeRows, MaxRows)
             \cup {Unkeyed(IncomeColumns, IncomeRows)},
     m \in {Missing(EmptyDict)} \cup {Present(d) : d \in MetadataDocs \ {EmptyDict}}}

EmptyDir ==
  [entities |-> Missing(EmptyDataFrame), relationships |-> Missing(EmptyDataFrame),
   expenses |-> Missing(EmptyDataFrame), income |-> Missing(EmptyDataFrame),
   metadata |-> Missing(EmptyDict)]

(* The arguments of the calls of create_tabular_attribute: a row subset    *)
(* of at most MaxEncodeRows rows and a list of its columns.                *)
EncodeRows ==
  {[RelatedEntityID |-> <<"A">>, Month |-> m, Category |-> "Food", Amount |-> a] :
     m \in {"Jan", "Feb"}, a \in {7, 12, 300}}

EncodeColumns ==
  {<<"Month", "Category", "Amount">>, <<"Amount", "Month">>, <<"Category">>,
   <<"Amount">>}

EncodeCalls ==
  {[key |-> k, df |-> [columns |-> ExpenseColumns, rows |-> t], columns |-> c,
    out |-> <<>>] :
     k \in {"expenses"}, t \in SeqsUpTo(EncodeRows, MaxEncodeRows), c \in EncodeColumns}

DataDirs ==
  {[entities |-> e, relationships |-> r, expenses |-> o.expenses,
    income |-> o.income, metadata |-> o.metadata] :
     e \in CsvFiles(EntityColumns, EntityRows, MaxEntities),
     r \in CsvFiles(RelationshipColumns, RelationshipRowsOf({"knows"}), MaxRels),
     o \in OptionalFiles}

-----------------------------------------------------------------------------
(* create_tabular_attribute: None is <<>>, an attribute is <<attr>>.       *)
(* astype(str) acts by column dtype: Amount is the integer column.         *)

AsTypeStr(column, v) == IF column = "Amount" THEN IntToStr(v) ELSE v

IsoFormatZ(now) == <<"T", now, "Z">>

(* create_tabular_attribute closing the history entry with an endTime. *)
create_tabular_attribute_WithEnd(key, df, relevant_columns, now) ==
  IF IsEmpty(df)
  THEN <<>>
  ELSE LET columns == relevant_columns
           rows == [r \in 1..Len(df.rows) |->
                      [c \in 1..Len(columns) |->
                         AsTypeStr(columns[c], df.rows[r][columns[c]])]]
           table_value == [columns |-> columns, rows |-> rows]
       IN <<[key |-> key,
             value |-> [values |-> <<[startTime |-> IsoFormatZ(now),
                                      endTime |-> "",
                                      value |-> table_value]>>]]>>

(* create_tabular_attribute without the projection df[columns]. *)
create_tabular_attribute_Unprojected(key, df, relevant_columns, now) ==
  IF IsEmpty(df)
  THEN <<>>
  ELSE LET columns == relevant_columns
           rows == [r \in 1..Len(df.rows) |->
                      [c \in 1..Len(df.columns) |->
                         AsTypeStr(df.columns[c], df.rows[r][df.columns[c]])]]
           table_value == [columns |-> columns, rows |-> rows]
       IN <<[key |-> key,
             value |-> [values |-> <<[startTime |-> IsoFormatZ(now),
                                      value |-> table_value]>>]]>>

create_tabular_attribute(key, df, relevant_columns, now) ==
  IF IsEmpty(df)
  THEN <<>>
  ELSE LET columns == relevant_columns
           rows == [r \in 1..Len(df.rows) |->
                      [c \in 1..Len(columns) |->
                         AsTypeStr(columns[c], df.rows[r][columns[c]])]]
           table_value == [columns |-> columns, rows |-> rows]
       IN <<[key |-> key,
             value |-> [values |-> <<[startTime |-> IsoFormatZ(now),
                                      value |-> table_value]>>]]>>

-----------------------------------------------------------------------------
(* construct_payload *)

HasColumn(df, c) == c \in Range(df.columns)

(* FilterRelated keeping the rows of every entity. *)
FilterRelated_Unfiltered(df, entity_id) ==
  IF ~IsEmpty(df) /\ HasColumn(df, "RelatedEntityID") THEN df ELSE EmptyDataFrame

FilterRelated(df, entity_id) ==
  IF ~IsEmpty(df) /\ HasColumn(df, "RelatedEntityID")
  THEN [columns |-> df.columns,
        rows |-> SelectSeq(df.rows, LAMBDA r : r.RelatedEntityID = entity_id)]
  ELSE EmptyDataFrame

(* rel_id without .lower() *)
rel_id_AsGiven(entity_id, to_id) ==
  <<"r", "e", "l", "-">> \o entity_id \o <<"-", "t", "o", "-">> \o to_id

rel_id(entity_id, to_id) ==
  Lower(<<"r", "e", "l", "-">> \o entity_id \o <<"-", "t", "o", "-">> \o to_id)

rel_payload(entity_id, rel) ==
  [key |-> rel.relation,
   value |-> [relatedEntityId |-> rel.to_id,
              startTime |-> rel.start_time,
              endTime |-> "",
              id |-> rel_id(entity_id, rel.to_id),
              name |-> rel.relation]]

(* PayloadKind ignoring exclude_kind. *)
PayloadKind_Always(entity, exclude_kind) ==
  "kind" :> [major |-> entity.kind_major, minor |-> entity.kind_minor]

PayloadKind(entity, exclude_kind) ==
  IF ~exclude_kind
  THEN "kind" :> [major |-> entity.kind_major, minor |-> entity.kind_minor]
  ELSE EmptyDict

PayloadMetadata(entity_id, md) ==
  IF entity_id \in DOMAIN md THEN md[entity_id] ELSE <<>>

PayloadExpenses(entity_id, exp, now) ==
  LET entity_expenses == FilterRelated(exp, entity_id)
  IN IF ~IsEmpty(entity_expenses)
     THEN create_tabular_attribute("expenses", entity_expenses,
                                   <<"Month", "Category", "Amount">>, now)
     ELSE <<>>

PayloadIncome(entity_id, inc, now) ==
  LET entity_income == FilterRelated(inc, entity_id)
  IN IF ~IsEmpty(entity_income)
     THEN create_tabular_attribute("income", entity_income,
                                   <<"Month", "Source", "Amount">>, now)
     ELSE <<>>

(* PayloadRelationships ignoring include_relationships. *)
PayloadRelationships_Always(entity_id, rels, include_relationships) ==
  LET entity_rels == SelectSeq(rels.rows, LAMBDA r : r.from_id = entity_id)
  IN [k \in 1..Len(entity_rels) |-> rel_payload(entity_id, entity_rels[k])]

PayloadRelationships(entity_id, rels, include_relationships) ==
  IF include_relationships
  THEN LET entity_rels == SelectSeq(rels.rows, LAMBDA r : r.from_id = entity_id)
       IN [k \in 1..Len(entity_rels) |-> rel_payload(entity_id, entity_rels[k])]
  ELSE <<>>

(* construct_payload sending, as the update, a patch of the relationships. *)
construct_payload_Patch(entity_id, entity, rels, exp, inc, md, include_relationships, exclude_kind, now) ==
  LET exp_attr == IF include_relationships THEN <<>> ELSE PayloadExpenses(entity_id, exp, now)
      inc_attr == IF include_relationships THEN <<>> ELSE PayloadIncome(entity_id, inc, now + Len(exp_attr))
  IN [id |-> entity_id,
      created |-> entity.start_time,
      name |-> [startTime |-> entity.start_time, value |-> entity.name],
      metadata |-> IF include_relationships THEN <<>> ELSE PayloadMetadata(entity_id, md),
      attributes |-> exp_attr \o inc_attr,
      relationships |-> PayloadRelationships(entity_id, rels, include_relationships)]
     @@ PayloadKind(entity, exclude_kind)

construct_payload(entity_id, entity, rels, exp, inc, md, include_relationships, exclude_kind, now) ==
  LET exp_attr == PayloadExpenses(entity_id, exp, now)
      inc_attr == PayloadIncome(entity_id, inc, now + Len(exp_attr))
  IN [id |-> entity_id,
      created |-> entity.start_time,
      name |-> [startTime |-> entity.start_time, value |-> entity.name],
      metadata |-> PayloadMetadata(entity_id, md),
      attributes |-> exp_attr \o inc_attr,
      relationships |-> PayloadRelationships(entity_id, rels, include_relationships)]
     @@ PayloadKind(entity, exclude_kind)

-----------------------------------------------------------------------------
(* send_request: the value it returns for a method and an outcome of the   *)
(* HTTP call (a response, or an exception raised by requests).             *)

Raised == [raised |-> TRUE, status_code |-> 0, text |-> <<>>]

Response(status, text) == [raised |-> FALSE, status_code |-> status, text |-> text]

Outcomes ==
  {Raised,
   Response(200, <<"ok">>),
   Response(201, <<"created">>),
   Response(409, <<"entity", "already", "exists">>),
   Response(400, <<"cannot", "update", "immutable", "fields">>),
   Response(500, <<"internal", "error">>)}

(* send_request without the tolerated "already exists" rejection. *)
send_request_Strict(method, outcome) ==
  IF outcome.raised \/ method \notin {"POST", "PUT"}
  THEN FALSE
  ELSE IF outcome.status_code \in {200, 201}
       THEN TRUE
       ELSE IsInfix(<<"cannot", "update", "immutable", "fields">>, outcome.text)

send_request(method, outcome) ==
  IF outcome.raised \/ method \notin {"POST", "PUT"}
  THEN FALSE
  ELSE IF outcome.status_code \in {200, 201}
       THEN TRUE
       ELSE LET err_msg == outcome.text
            IN IF IsInfix(<<"already", "exists">>, err_msg)
               THEN TRUE
               ELSE IF IsInfix(<<"cannot", "update", "immutable", "fields">>, err_msg)
                    THEN TRUE
                    ELSE FALSE

-----------------------------------------------------------------------------
(* The remote store, seen through its request/response contract: the set   *)
(* of entity identifiers it holds.  A create is insert-only, an update is  *)
(* an upsert by identifier; every failure leaves the store as it was.      *)

Accepted(outcome) == ~outcome.raised /\ outcome.status_code \in {200, 201}

AlreadyExists == Response(409, <<"entity", "already", "exists">>)

StoreOutcomes(method, id, st) ==
  IF method = "POST"
  THEN IF id \in st
       THEN {o \in Outcomes : ~Accepted(o)}
       ELSE Outcomes \ {AlreadyExists}
  ELSE Outcomes

StoreAfter(method, id, outcome, st) ==
  IF Accepted(outcome) /\ method \in {"POST", "PUT"} THEN st \cup {id} ELSE st

IdealCreateOutcome(id, st) ==
  IF id \in st THEN AlreadyExists ELSE Response(201, <<"created">>)

-----------------------------------------------------------------------------
(* State *)

NoCall == [method |-> "NONE", outcome |-> Raised, result |-> FALSE]

INGESTION_API(path) == [base |-> "http://localhost:8080/entities", path |-> path]

READ_API(path) == [base |-> "http://localhost:8081/v1/entities", path |-> path]

NoEncode == [key |-> "", df |-> EmptyDataFrame, columns |-> <<>>, out |-> <<>>]

Start(dirs, cmd, at, calls) ==
  /\ files \in dirs
  /\ encoded \in calls
  /\ command = cmd
  /\ pc = at
  /\ entities = EmptyDataFrame
  /\ relationships = EmptyDataFrame
  /\ expenses = EmptyDataFrame
  /\ income = EmptyDataFrame
  /\ metadata = EmptyDict
  /\ i = 0
  /\ entities_with_rels = {}
  /\ clock = 0
  /\ sent = <<>>
  /\ last = NoCall
  /\ store = {}
  /\ store_at_start = {}
  /\ ingested = FALSE
  /\ p1_ideal = TRUE

(* A process about to parse its command line, on an empty store. *)
Init == Start(DataDirs, "", "main", {NoEncode})

(* A process given the create command entering ingest_data, on an empty   *)
(* store.                                                                  *)
InitTables == Start(TableDirs, "create", "load", {NoEncode})

(* A call of create_tabular_attribute about to be made. *)
InitEncode == Start({EmptyDir}, "", "encode", EncodeCalls)

-----------------------------------------------------------------------------
(* main *)

(* Main running the ingestion under the verify command too. *)
Main_AlwaysIngest ==
  /\ pc = "main"
  /\ \E cmd \in {"create", "verify", ""} :
       /\ command' = cmd
       /\ pc' = CASE cmd = "create" -> "load"
                  [] cmd = "verify" -> "load"
                  [] OTHER -> "exit1"
  /\ UNCHANGED <<encoded, files, entities, relationships, expenses, income, metadata,
                 i, entities_with_rels, clock, sent, last, store,
                 store_at_start, ingested, p1_ideal>>

(* main: the command line selects create, verify or the usage exit. *)
Main ==
  /\ pc = "main"
  /\ \E cmd \in {"create", "verify", ""} :
       /\ command' = cmd
       /\ pc' = CASE cmd = "create" -> "load"
                  [] cmd = "verify" -> "verify"
                  [] OTHER -> "exit1"
  /\ UNCHANGED <<encoded, files, entities, relationships, expenses, income, metadata,
                 i, entities_with_rels, clock, sent, last, store,
                 store_at_start, ingested, p1_ideal>>

(* LoadData reading a missing relationships.csv as an empty table. *)
LoadData_Tolerant ==
  /\ pc = "load"
  /\ IF files.entities.present
     THEN /\ entities' = files.entities.data
          /\ relationships' = IF files.relationships.present
                              THEN files.relationships.data ELSE EmptyDataFrame
          /\ expenses' = IF files.expenses.present
                         THEN files.expenses.data ELSE EmptyDataFrame
          /\ income' = IF files.income.present
                       THEN files.income.data ELSE EmptyDataFrame
          /\ metadata' = IF files.metadata.present
                         THEN files.metadata.data ELSE EmptyDict
          /\ i' = 1
          /\ pc' = "phase1"
     ELSE /\ pc' = "raised"
          /\ UNCHANGED <<entities, relationships, expenses, income, metadata, i>>
  /\ UNCHANGED <<encoded, files, command, entities_with_rels, clock, sent, last,
                 store, store_at_start, ingested, p1_ideal>>

(* load_data, called first by ingest_data: pd.read_csv of a missing        *)
(* mandatory file raises FileNotFoundError, which nothing catches.         *)
LoadData ==
  /\ pc = "load"
  /\ IF files.entities.present /\ files.relationships.present
     THEN /\ entities' = files.entities.data
          /\ relationships' = files.relationships.data
          /\ expenses' = IF files.expenses.present
                         THEN files.expenses.data ELSE EmptyDataFrame
          /\ income' = IF files.income.present
                       THEN files.income.data ELSE EmptyDataFrame
          /\ metadata' = IF files.metadata.present
                         THEN files.metadata.data ELSE EmptyDict
          /\ i' = 1
          /\ pc' = "phase1"
     ELSE /\ pc' = "raised"
          /\ UNCHANGED <<entities, relationships, expenses, income, metadata, i>>
  /\ UNCHANGED <<encoded, files, command, entities_with_rels, clock, sent, last,
                 store, store_at_start, ingested, p1_ideal>>

(* Phase1Create walking the entity table from its last row to its first. *)
Phase1Create_Reversed ==
  /\ pc = "phase1"
  /\ i <= Len(entities.rows)
  /\ LET row == Len(entities.rows) - i + 1
         entity == entities.rows[row]
         entity_id == entity.id
         payload == construct_payload(entity_id, entity, relationships, expenses,
                                      income, metadata, FALSE, FALSE, clock)
     IN \E outcome \in StoreOutcomes("POST", entity_id, store) :
          LET result == send_request("POST", outcome)
          IN /\ sent' = Append(sent, [method |-> "POST", url |-> INGESTION_API(<<>>),
                                      row |-> row, payload |-> payload])
             /\ last' = [method |-> "POST", outcome |-> outcome, result |-> result]
             /\ store' = StoreAfter("POST", entity_id, outcome, store)
             /\ clock' = clock + Len(payload.attributes)
             /\ p1_ideal' = (p1_ideal /\ outcome = IdealCreateOutcome(entity_id, store))
  /\ i' = i + 1
  /\ UNCHANGED <<encoded, files, command, pc, entities, relationships, expenses,
                 income, metadata, entities_with_rels, store_at_start, ingested>>

(* Phase1Create sending the create again when send_request returned False. *)
Phase1Create_Retry ==
  /\ pc = "phase1"
  /\ i <= Len(entities.rows)
  /\ LET entity == entities.rows[i]
         entity_id == entity.id
         payload == construct_payload(entity_id, entity, relationships, expenses,
                                      income, metadata, FALSE, FALSE, clock)
     IN \E outcome \in StoreOutcomes("POST", entity_id, store) :
          LET result == send_request("POST", outcome)
          IN /\ sent' = Append(sent, [method |-> "POST", url |-> INGESTION_API(<<>>),
                                      row |-> i, payload |-> payload])
             /\ last' = [method |-> "POST", outcome |-> outcome, result |-> result]
             /\ store' = StoreAfter("POST", entity_id, outcome, store)
             /\ clock' = clock + Len(payload.attributes)
             /\ p1_ideal' = (p1_ideal /\ outcome = IdealCreateOutcome(entity_id, store))
             /\ i' = IF result THEN i + 1 ELSE i
  /\ UNCHANGED <<encoded, files, command, pc, entities, relationships, expenses,
                 income, metadata, entities_with_rels, store_at_start, ingested>>

(* One iteration of the Phase 1 loop of ingest_data. *)
Phase1Create ==
  /\ pc = "phase1"
  /\ i <= Len(entities.rows)
  /\ LET entity == entities.rows[i]
         entity_id == entity.id
         payload == construct_payload(entity_id, entity, relationships, expenses,
                                      income, metadata, FALSE, FALSE, clock)
     IN \E outcome \in StoreOutcomes("POST", entity_id, store) :
          LET result == send_request("POST", outcome)
          IN /\ sent' = Append(sent, [method |-> "POST", url |-> INGESTION_API(<<>>),
                                      row |-> i, payload |-> payload])
             /\ last' = [method |-> "POST", outcome |-> outcome, result |-> result]
             /\ store' = StoreAfter("POST", entity_id, outcome, store)
             /\ clock' = clock + Len(payload.attributes)
             /\ p1_ideal' = (p1_ideal /\ outcome = IdealCreateOutcome(entity_id, store))
  /\ i' = i + 1
  /\ UNCHANGED <<encoded, files, command, pc, entities, relationships, expenses,
                 income, metadata, entities_with_rels, store_at_start, ingested>>

(* BeginPhase2 leaving the Phase 1 loop one entity early. *)
BeginPhase2_Early ==
  /\ pc = "phase1"
  /\ i >= Len(entities.rows)
  /\ entities_with_rels' = {r.from_id : r \in Range(relationships.rows)}
  /\ i' = 1
  /\ pc' = "phase2"
  /\ UNCHANGED <<encoded, files, command, entities, relationships, expenses, income,
                 metadata, clock, sent, last, store, store_at_start, ingested,
                 p1_ideal>>

(* End of the Phase 1 loop: relationships["from_id"].unique(). *)
BeginPhase2 ==
  /\ pc = "phase1"
  /\ i > Len(entities.rows)
  /\ entities_with_rels' = {r.from_id : r \in Range(relationships.rows)}
  /\ i' = 1
  /\ pc' = "phase2"
  /\ UNCHANGED <<encoded, files, command, entities, relationships, expenses, income,
                 metadata, clock, sent, last, store, store_at_start, ingested, p1_ideal>>

(* HasRelationships linking every entity. *)
HasRelationships_Always(entity_id) == TRUE

(* entity_id in entities_with_rels *)
HasRelationships(entity_id) == entity_id \in entities_with_rels

(* One iteration of the Phase 2 loop for an entity that has relationships. *)
Phase2Link ==
  /\ pc = "phase2"
  /\ i <= Len(entities.rows)
  /\ HasRelationships(entities.rows[i].id)
  /\ LET entity == entities.rows[i]
         entity_id == entity.id
         payload == construct_payload(entity_id, entity, relationships, expenses,
                                      income, metadata, TRUE, TRUE, clock)
     IN \E outcome \in StoreOutcomes("PUT", entity_id, store) :
          /\ sent' = Append(sent, [method |-> "PUT", url |-> INGESTION_API(entity_id),
                                   row |-> i, payload |-> payload])
          /\ last' = [method |-> "PUT", outcome |-> outcome,
                      result |-> send_request("PUT", outcome)]
          /\ store' = StoreAfter("PUT", entity_id, outcome, store)
          /\ clock' = clock + Len(payload.attributes)
  /\ i' = i + 1
  /\ UNCHANGED <<encoded, files, command, pc, entities, relationships, expenses,
                 income, metadata, entities_with_rels, store_at_start, ingested, p1_ideal>>

(* One iteration of the Phase 2 loop for an entity without relationships. *)
Phase2Skip ==
  /\ pc = "phase2"
  /\ i <= Len(entities.rows)
  /\ ~HasRelationships(entities.rows[i].id)
  /\ i' = i + 1
  /\ UNCHANGED <<encoded, files, command, pc, entities, relationships, expenses,
                 income, metadata, entities_with_rels, clock, sent, last, store,
                 store_at_start, ingested, p1_ideal>>

(* ingest_data returns to main, which calls verify_ingestion. *)
EndIngest ==
  /\ pc = "phase2"
  /\ i > Len(entities.rows)
  /\ pc' = "verify"
  /\ UNCHANGED <<encoded, files, command, entities, relationships, expenses, income,
                 metadata, i, entities_with_rels, clock, sent, last, store,
                 store_at_start, ingested, p1_ideal>>

(* VerifyIngestion letting a transport exception leave the function. *)
VerifyIngestion_Escalating ==
  /\ pc = "verify"
  /\ \E outcome \in Outcomes :
       /\ last' = [method |-> "SEARCH", outcome |-> outcome,
                   result |-> (~outcome.raised /\ outcome.status_code = 200)]
       /\ pc' = IF outcome.raised THEN "raised" ELSE "done"
  /\ sent' = Append(sent, [method |-> "SEARCH", url |-> READ_API(<<"search">>),
                           row |-> 0,
                           payload |-> [kind |-> [major |-> "Person"]]])
  /\ UNCHANGED <<encoded, files, command, entities, relationships, expenses, income,
                 metadata, i, entities_with_rels, clock, store,
                 store_at_start, ingested, p1_ideal>>

(* verify_ingestion: every outcome of the search is handled inside. *)
VerifyIngestion ==
  /\ pc = "verify"
  /\ \E outcome \in Outcomes :
       last' = [method |-> "SEARCH", outcome |-> outcome,
                result |-> (~outcome.raised /\ outcome.status_code = 200)]
  /\ sent' = Append(sent, [method |-> "SEARCH", url |-> READ_API(<<"search">>),
                           row |-> 0,
                           payload |-> [kind |-> [major |-> "Person"]]])
  /\ pc' = "done"
  /\ UNCHANGED <<encoded, files, command, entities, relationships, expenses, income,
                 metadata, i, entities_with_rels, clock, store,
                 store_at_start, ingested, p1_ideal>>

(* The program is started again on the same data directory and store. *)
Rerun ==
  /\ pc \in {"done", "raised", "exit1"}
  /\ command' = ""
  /\ pc' = "main"
  /\ entities' = EmptyDataFrame
  /\ relationships' = EmptyDataFrame
  /\ expenses' = EmptyDataFrame
  /\ income' = EmptyDataFrame
  /\ metadata' = EmptyDict
  /\ i' = 0
  /\ entities_with_rels' = {}
  /\ sent' = <<>>
  /\ last' = NoCall
  /\ clock' = 0
  /\ store_at_start' = store
  /\ ingested' = (ingested \/ (pc = "done" /\ command = "create"))
  /\ UNCHANGED <<encoded, files, store, p1_ideal>>

Next ==
  \/ Main
  \/ LoadData
  \/ Phase1Create
  \/ BeginPhase2
  \/ Phase2Link
  \/ Phase2Skip
  \/ EndIngest
  \/ VerifyIngestion
  \/ Rerun

Spec == Init /\ [][Next]_vars

(* One process given the create command, over the attribute tables. *)
NextTables ==
  \/ LoadData
  \/ Phase1Create
  \/ BeginPhase2
  \/ Phase2Link
  \/ Phase2Skip
  \/ EndIngest
  \/ VerifyIngestion

SpecTables == InitTables /\ [][NextTables]_vars

(* One process given the create command entering ingest_data, over the    *)
(* data directories of Init.                                               *)
InitRun == Start(DataDirs, "create", "load", {NoEncode})

(* The process keeps executing: none of its statements blocks forever.    *)
SpecRun == InitRun /\ [][NextTables]_vars /\ WF_vars(NextTables)

(* create_tabular_attribute applied to the arguments of `encoded`. *)
Encode ==
  /\ pc = "encode"
  /\ encoded' = [encoded EXCEPT !.out = create_tabular_attribute(
                                          encoded.key, encoded.df, encoded.columns, clock)]
  /\ clock' = clock + Len(encoded'.out)
  /\ pc' = "encoded"
  /\ UNCHANGED <<files, command, entities, relationships, expenses, income,
                 metadata, i, entities_with_rels, sent, last, store,
                 store_at_start, ingested, p1_ideal>>

NextEncode == Encode

SpecEncode == InitEncode /\ [][NextEncode]_vars

-----------------------------------------------------------------------------
(* Properties *)

Sent(method) == {k \in 1..Len(sent) : sent[k].method = method}

EntityIds == {r.id : r \in Range(entities.rows)}

FromIds == {r.from_id : r \in Range(relationships.rows)}

IngestDone == command = "create" /\ pc \in {"verify", "done"}

UniqueIds ==
  \A a, b \in 1..Len(entities.rows) :
    entities.rows[a].id = entities.rows[b].id => a = b

(* C1: two-phase ordering.  Before any update (PUT) request of a run, a    *)
(* create (POST) request has been issued for every row of the entity       *)
(* table, and no create request follows an update request.                 *)
C1_TwoPhaseOrdering ==
  \A k \in Sent("PUT") :
    /\ \A r \in 1..Len(entities.rows) :
         \E j \in Sent("POST") : j < k /\ sent[j].row = r
    /\ \A j \in Sent("POST") : j < k

C1_Witness ==
  /\ IngestDone
  /\ Len(entities.rows) = MaxEntities
  /\ Cardinality(Sent("PUT")) >= 2
  /\ store = {}

(* C2: referential integrity at link time.  With every relationship's     *)
(* source and target in the entity table, when an update request is about  *)
(* to be issued every relatedEntityId of its payload is in the store.      *)
C2_TargetsExistAtLink ==
  (/\ pc = "phase2"
   /\ i <= Len(entities.rows)
   /\ \A r \in Range(relationships.rows) :
        r.from_id \in EntityIds /\ r.to_id \in EntityIds)
  => (HasRelationships(entities.rows[i].id)
      => \A r \in Range(construct_payload(entities.rows[i].id, entities.rows[i],
                                          relationships, expenses, income,
                                          metadata, TRUE, TRUE, clock).relationships) :
           r.value.relatedEntityId \in store)

(* C3: two-phase selection, as claimed.  The entities that received an     *)
(* update request are exactly the distinct from_id of the relationship     *)
(* table.                                                                  *)
C3_SelectionIsFromIds ==
  IngestDone => {sent[k].payload.id : k \in Sent("PUT")} = FromIds

(* C3, amended: the entities that received an update request are exactly   *)
(* the distinct from_id that are identifiers of the entity table, and an   *)
(* entity without outgoing relationships never receives one.               *)
C3_SelectionIsFromIdsOfEntities ==
  /\ {sent[k].payload.id : k \in Sent("PUT")} \subseteq FromIds \cap EntityIds
  /\ IngestDone => {sent[k].payload.id : k \in Sent("PUT")} = FromIds \cap EntityIds

(* B is a source of the relationship table and no row of the entity table. *)
C3_Witness ==
  /\ IngestDone
  /\ EntityIds = {<<"A">>}
  /\ FromIds = Ids
  /\ Cardinality(Sent("PUT")) = Len(entities.rows)

(* C4: per-entity containment without retry.  With unique entity           *)
(* identifiers, whatever the outcomes of the requests, a run issues at     *)
(* most one create and one update per entity, and when ingest_data has     *)
(* returned exactly one create per entity and exactly one update per       *)
(* entity that has relationships.                                          *)
C4_OneRequestPerEntity ==
  UniqueIds =>
    \A r \in 1..Len(entities.rows) :
      LET posts == {k \in Sent("POST") : sent[k].payload.id = entities.rows[r].id}
          puts == {k \in Sent("PUT") : sent[k].payload.id = entities.rows[r].id}
      IN /\ Cardinality(posts) <= 1
         /\ Cardinality(puts) <= 1
         /\ IngestDone =>
              /\ Cardinality(posts) = 1
              /\ Cardinality(puts) = IF entities.rows[r].id \in FromIds THEN 1 ELSE 0

(* The create of A and the update of A were both refused or lost, and the  *)
(* requests for B were issued all the same. *)
C4_Witness ==
  /\ IngestDone
  /\ UniqueIds
  /\ Len(entities.rows) = 2
  /\ entities.rows[1].id = <<"A">>
  /\ FromIds = Ids
  /\ store = {<<"B">>}
  /\ ~ingested
  /\ Cardinality(Sent("POST")) = 2
  /\ Cardinality(Sent("PUT")) = 2

(* C5: idempotent re-run.  Against a store that accepts the create of a    *)
(* new entity and rejects the create of an existing one with "already      *)
(* exists", every create of every run returns success, and the Phase 1 of  *)
(* a run after a completed ingestion leaves the store as it found it.      *)
C5_IdempotentRerun ==
  p1_ideal =>
    /\ last.method = "POST" => last.result
    /\ (ingested /\ pc = "phase1") => store = store_at_start

C5_Witness ==
  /\ p1_ideal
  /\ ingested
  /\ pc = "phase1"
  /\ Len(entities.rows) = MaxEntities
  /\ i > Len(entities.rows)
  /\ UniqueIds
  /\ last.method = "POST"
  /\ last.outcome = AlreadyExists
  /\ last.result

(* C6: write outcome classification, as claimed.  send_request returns     *)
(* success exactly for a 200 or 201, for a create rejected as "already     *)
(* exists" and for an update rejected for immutable fields.                *)
C6_Classification ==
  last.method \in {"POST", "PUT"} =>
    (last.result <=>
       /\ ~last.outcome.raised
       /\ \/ last.outcome.status_code \in {200, 201}
          \/ last.method = "POST" /\ last.outcome = AlreadyExists
          \/ last.method = "PUT"
             /\ last.outcome = Response(400, <<"cannot", "update", "immutable", "fields">>))

(* C7: kind inclusion.  Every create payload has a kind field with the     *)
(* major and minor classification of its entity row, and no update         *)
(* payload has a kind field.                                               *)
C7_KindInclusion ==
  /\ \A k \in Sent("POST") :
       /\ "kind" \in DOMAIN sent[k].payload
       /\ sent[k].payload.kind.major = files.entities.data.rows[sent[k].row].kind_major
       /\ sent[k].payload.kind.minor = files.entities.data.rows[sent[k].row].kind_minor
  /\ \A k \in Sent("PUT") : "kind" \notin DOMAIN sent[k].payload

C7_Witness ==
  /\ IngestDone
  /\ \E k \in Sent("POST") : sent[k].payload.kind.major = "Organisation"
  /\ \E k \in Sent("PUT") : sent[k].payload.id = <<"B">>

(* C8, as claimed: no create payload has a relationships field. *)
C8_NoRelationshipsField ==
  \A k \in Sent("POST") : "relationships" \notin DOMAIN sent[k].payload

(* C8, amended: every create payload, also that of an entity that is the   *)
(* source of relationship rows, has a relationships field that is the      *)
(* empty list.                                                             *)
C8_EmptyRelationships ==
  \A k \in Sent("POST") :
    /\ "relationships" \in DOMAIN sent[k].payload
    /\ sent[k].payload.relationships = <<>>

C8_Witness ==
  \E k \in Sent("POST") :
    Cardinality({j \in 1..Len(files.relationships.data.rows) :
                   files.relationships.data.rows[j].from_id = sent[k].payload.id}) = 2

(* C9: Phase-2 relationship content.  The relationships of the update      *)
(* payload of entity E are, in table order, one entry per row of the       *)
(* relationship table whose from_id is E, with key = name = the relation,  *)
(* relatedEntityId = to_id, startTime = the row's start time, endTime ""   *)
(* and id the lower-case rel-<from>-to-<to>.                               *)
LowerCaseOf(id) == IF id = <<"A">> THEN <<"a">> ELSE <<"b">>

C9_RelationshipContent ==
  \A k \in Sent("PUT") :
    LET table == files.relationships.data.rows
        mine == {j \in 1..Len(table) : table[j].from_id = sent[k].payload.id}
        nth(n) == CHOOSE j \in mine : Cardinality({m \in mine : m < j}) = n - 1
        out == sent[k].payload.relationships
    IN /\ Len(out) = Cardinality(mine)
       /\ \A n \in 1..Len(out) :
            /\ DOMAIN out[n] = {"key", "value"}
            /\ DOMAIN out[n].value = {"relatedEntityId", "startTime", "endTime", "id", "name"}
            /\ out[n].key = table[nth(n)].relation
            /\ out[n].value.name = table[nth(n)].relation
            /\ out[n].value.relatedEntityId = table[nth(n)].to_id
            /\ out[n].value.startTime = table[nth(n)].start_time
            /\ out[n].value.endTime = ""
            /\ out[n].value.id = <<"r", "e", "l", "-">> \o LowerCaseOf(table[nth(n)].from_id)
                                 \o <<"-", "t", "o", "-">> \o LowerCaseOf(table[nth(n)].to_id)

C9_Witness ==
  \E k \in Sent("PUT") :
    /\ Len(sent[k].payload.relationships) = 2
    /\ sent[k].payload.relationships[1].value.id
         = <<"r", "e", "l", "-", "a", "-", "t", "o", "-", "b">>
    /\ sent[k].payload.relationships[2].value.id
         = <<"r", "e", "l", "-", "a", "-", "t", "o", "-", "a">>
    /\ Len(files.relationships.data.rows) = 2

(* C10: attribute presence and independence.  In every payload of either   *)
(* phase, an attribute with key "expenses" (resp. "income") is present     *)
(* exactly when the expenses (resp. income) file has a row whose           *)
(* RelatedEntityID is the entity, whatever the other file is; it is then   *)
(* present once, with its own columns and as many rows as the file has     *)
(* for the entity, and no attribute has an empty rows list.                *)
RowsFor(file, id) ==
  IF file.present /\ "RelatedEntityID" \in Range(file.data.columns)
  THEN {j \in 1..Len(file.data.rows) : file.data.rows[j].RelatedEntityID = id}
  ELSE {}

C10_AttributePresence ==
  \A k \in Sent("POST") \cup Sent("PUT") :
    LET attrs == sent[k].payload.attributes
        with(key) == {a \in 1..Len(attrs) : attrs[a].key = key}
        ok(key, file, columns) ==
          /\ Cardinality(with(key)) = IF RowsFor(file, sent[k].payload.id) # {} THEN 1 ELSE 0
          /\ \A a \in with(key) :
               /\ attrs[a].value.values[1].value.columns = columns
               /\ Len(attrs[a].value.values[1].value.rows)
                    = Cardinality(RowsFor(file, sent[k].payload.id))
    IN /\ ok("expenses", files.expenses, <<"Month", "Category", "Amount">>)
       /\ ok("income", files.income, <<"Month", "Source", "Amount">>)
       /\ \A a \in 1..Len(attrs) :
            /\ attrs[a].key \in {"expenses", "income"}
            /\ Len(attrs[a].value.values[1].value.rows) > 0

(* An entity with income rows and no expenses file, next to a payload of   *)
(* an entity with neither attribute. *)
C10_Witness ==
  /\ ~files.expenses.present
  /\ \E k \in Sent("PUT") :
       /\ Len(sent[k].payload.attributes) = 1
       /\ sent[k].payload.attributes[1].key = "income"
  /\ \E k \in Sent("POST") : Len(sent[k].payload.attributes) = 0

(* C11: projection correctness.  For a non-empty row subset and a          *)
(* requested column list, the table of the encoded attribute has exactly   *)
(* the requested columns and one row per input row, in order, whose cells  *)
(* are the input row's values at those columns, as strings, in the         *)
(* requested column order.                                                 *)
ExpectedCell(column, v) ==
  IF column = "Amount"
  THEN CASE v = 7 -> <<"7">>
         [] v = 12 -> <<"1", "2">>
         [] v = 300 -> <<"3", "0", "0">>
  ELSE v

C11_ProjectionCorrectness ==
  (pc = "encoded" /\ Len(encoded.df.rows) > 0) =>
    /\ Len(encoded.out) = 1
    /\ LET table == encoded.out[1].value.values[1].value
       IN /\ DOMAIN table = {"columns", "rows"}
          /\ table.columns = encoded.columns
          /\ Len(table.rows) = Len(encoded.df.rows)
          /\ \A r \in 1..Len(table.rows) :
               /\ Len(table.rows[r]) = Len(encoded.columns)
               /\ \A c \in 1..Len(encoded.columns) :
                    table.rows[r][c]
                      = ExpectedCell(encoded.columns[c],
                                     encoded.df.rows[r][encoded.columns[c]])

(* Two rows that differ, and a column list that reorders the table. *)
C11_Witness ==
  /\ pc = "encoded"
  /\ encoded.columns = <<"Amount", "Month">>
  /\ Len(encoded.out) = 1
  /\ encoded.out[1].value.values[1].value.rows
       = <<<<<<"3", "0", "0">>, "Feb">>, <<<<"7">>, "Jan">>>>

(* C12: envelope shape.  Every attribute of every payload is a key and a   *)
(* value whose history has exactly one entry, with a non-empty start       *)
(* timestamp (ending in "Z"), the table, and no end field.                 *)
C12_EnvelopeShape ==
  \A k \in Sent("POST") \cup Sent("PUT") :
    \A a \in 1..Len(sent[k].payload.attributes) :
      LET attr == sent[k].payload.attributes[a]
      IN /\ DOMAIN attr = {"key", "value"}
         /\ DOMAIN attr.value = {"values"}
         /\ Len(attr.value.values) = 1
         /\ DOMAIN attr.value.values[1] = {"startTime", "value"}
         /\ Len(attr.value.values[1].startTime) > 0
         /\ attr.value.values[1].startTime[Len(attr.value.values[1].startTime)] = "Z"

C12_Witness ==
  /\ \E k \in Sent("POST") : Len(sent[k].payload.attributes) = 2
  /\ \E k \in Sent("PUT") : Len(sent[k].payload.attributes) = 2

(* C13: fatal load error.  In a run that loads the data directory (the     *)
(* create command), a missing entities.csv or relationships.csv ends the   *)
(* run in load_data with no request issued; with both there the run is     *)
(* not ended by an exception, whichever of expenses.csv, income.csv and    *)
(* metadata.json is missing.                                               *)
C13_FatalLoadError ==
  command = "create" =>
    IF files.entities.present /\ files.relationships.present
    THEN pc # "raised"
    ELSE sent = <<>> /\ pc \in {"load", "raised"}

C13_Witness ==
  /\ command = "create"
  /\ pc = "raised"
  /\ files.entities.present
  /\ Len(files.entities.data.rows) = MaxEntities
  /\ ~files.relationships.present
  /\ files.expenses.present
  /\ sent = <<>>

(* The optional files are all missing and the run went to its end. *)
C13_WitnessOptional ==
  /\ command = "create"
  /\ pc = "done"
  /\ ~files.expenses.present /\ ~files.income.present /\ ~files.metadata.present
  /\ Len(sent) = 4

(* C14: run always completes.  With entities.csv and relationships.csv     *)
(* present, a create run never ends by an exception, and from its start    *)
(* it reaches its normal end having sent one create per entity, one        *)
(* update per selected entity and the search, whatever the outcomes.       *)
MandatoryPresent == files.entities.present /\ files.relationships.present

AllAttempted ==
  /\ Cardinality(Sent("POST")) = Len(entities.rows)
  /\ Cardinality(Sent("PUT")) =
       Cardinality({r \in 1..Len(entities.rows) : entities.rows[r].id \in FromIds})
  /\ Cardinality(Sent("SEARCH")) = 1

C14_RunCompletes ==
  /\ [](command = "create" /\ MandatoryPresent => pc # "raised")
  /\ (command = "create" /\ pc = "load" /\ MandatoryPresent)
       ~> (command = "create" /\ pc = "done" /\ AllAttempted)

C14_Witness ==
  /\ command = "create"
  /\ pc = "done"
  /\ Len(entities.rows) = MaxEntities
  /\ Sent("PUT") # {}
  /\ store = {}
  /\ last.method = "SEARCH"
  /\ last.outcome = Raised
  /\ AllAttempted

(* C15: command sequencing.  A run issues at most one search and nothing   *)
(* after it; under create the search follows one create per entity and     *)
(* one update per selected entity and has been issued when the run ends;   *)
(* under verify no create or update is sent and the run ends having        *)
(* issued the search alone.                                                *)
C15_CommandSequencing ==
  /\ Cardinality(Sent("SEARCH")) <= 1
  /\ \A k \in Sent("SEARCH") : k = Len(sent)
  /\ command = "create" /\ Sent("SEARCH") # {} => AllAttempted
  /\ command = "create" /\ pc = "done" => Cardinality(Sent("SEARCH")) = 1
  /\ command = "verify" => Sent("POST") \cup Sent("PUT") = {}
  /\ command = "verify" /\ pc = "done" => Len(sent) = 1 /\ sent[1].method = "SEARCH"

C15_Witness ==
  /\ command = "create"
  /\ pc = "done"
  /\ Cardinality(Sent("POST")) = MaxEntities
  /\ Cardinality(Sent("PUT")) = 2
  /\ sent[Len(sent)].method = "SEARCH"

(* A verify run on a store a create run has filled. *)
C15_WitnessVerify ==
  /\ command = "verify"
  /\ pc = "done"
  /\ store # {}
  /\ Len(sent) = 1

(* C16: relationship identifier uniqueness.  Any two relationship entries  *)
(* emitted in a run, in the same update payload or in two, carry           *)
(* different ids.                                                          *)
Emitted ==
  {<<k, a>> : k \in Sent("PUT"), a \in 1..MaxRels} \cap
  {e \in (1..Len(sent)) \X (1..MaxRels) :
     /\ sent[e[1]].method = "PUT"
     /\ e[2] <= Len(sent[e[1]].payload.relationships)}

EmittedEntry(e) == sent[e[1]].payload.relationships[e[2]].value

(* The relationship row an emitted entry was made from. *)
EmittedRow(e) ==
  [from_id |-> sent[e[1]].payload.id,
   to_id |-> EmittedEntry(e).relatedEntityId,
   relation |-> EmittedEntry(e).name,
   start_time |-> EmittedEntry(e).startTime]

C16_UniqueRelationshipIds ==
  \A e1, e2 \in Emitted :
    EmittedRow(e1) # EmittedRow(e2) => EmittedEntry(e1).id # EmittedEntry(e2).id

(* C17: request order within each phase.  The creates of a run are for     *)
(* rows 1, 2, ... of the entity table in that order; the updates are for   *)
(* the selected rows of the entity table in increasing row order,          *)
(* whatever the order of the relationship table.                           *)
InLoadOrder(method) ==
  /\ \A k \in Sent(method) :
       /\ sent[k].row \in 1..Len(entities.rows)
       /\ sent[k].payload.id = entities.rows[sent[k].row].id
  /\ \A k1, k2 \in Sent(method) : k1 < k2 => sent[k1].row < sent[k2].row

C17_RequestOrder ==
  /\ InLoadOrder("POST")
  /\ \A k \in Sent("POST") : sent[k].row = k
  /\ InLoadOrder("PUT")
  /\ IngestDone =>
       {sent[k].row : k \in Sent("PUT")} =
         {r \in 1..Len(entities.rows) : entities.rows[r].id \in FromIds}

C17_Witness ==
  /\ IngestDone
  /\ Len(entities.rows) = 2
  /\ Len(relationships.rows) = 2
  /\ relationships.rows[1].from_id = entities.rows[2].id
  /\ relationships.rows[2].from_id = entities.rows[1].id
  /\ sent[1].method = "POST" /\ sent[1].payload.id = entities.rows[1].id
  /\ sent[2].method = "POST" /\ sent[2].payload.id = entities.rows[2].id
  /\ sent[3].method = "PUT" /\ sent[3].payload.id = entities.rows[1].id
  /\ sent[4].method = "PUT" /\ sent[4].payload.id = entities.rows[2].id

(* C18: rebuild, not patch.  The update payload of an entity agrees with   *)
(* its create payload on id, created, name, metadata, and on the keys and  *)
(* tables of the attributes; it differs in omitting kind and in carrying   *)
(* the entity's relationship entries.  The loaded tables and the metadata  *)
(* mapping stay what load_data read.                                       *)
TableOf(attr) == [key |-> attr.key, table |-> attr.value.values[1].value]

SameButKindAndRelationships(create, update) ==
  /\ update.id = create.id
  /\ update.created = create.created
  /\ update.name = create.name
  /\ update.metadata = create.metadata
  /\ Len(update.attributes) = Len(create.attributes)
  /\ \A a \in 1..Len(create.attributes) :
       TableOf(update.attributes[a]) = TableOf(create.attributes[a])
  /\ DOMAIN create = DOMAIN update \cup {"kind"}
  /\ "kind" \notin DOMAIN update
  /\ create.relationships = <<>>
  /\ Len(update.relationships) =
       Len(SelectSeq(relationships.rows, LAMBDA r : r.from_id = update.id))
  /\ Len(update.relationships) > 0

SourceTablesUnchanged ==
  pc \in {"phase1", "phase2", "verify", "done"} =>
    /\ entities = files.entities.data
    /\ relationships = files.relationships.data
    /\ expenses = IF files.expenses.present THEN files.expenses.data ELSE EmptyDataFrame
    /\ income = IF files.income.present THEN files.income.data ELSE EmptyDataFrame
    /\ metadata = IF files.metadata.present THEN files.metadata.data ELSE EmptyDict

C18_RebuildNotPatch ==
  /\ SourceTablesUnchanged
  /\ \A u \in Sent("PUT") :
       /\ \E c \in Sent("POST") : sent[c].row = sent[u].row
       /\ \A c \in Sent("POST") :
            sent[c].row = sent[u].row =>
              SameButKindAndRelationships(sent[c].payload, sent[u].payload)

C18_Witness ==
  \E u \in Sent("PUT") : \E c \in Sent("POST") :
    /\ sent[c].row = sent[u].row
    /\ Len(sent[u].payload.attributes) = 2
    /\ Len(sent[u].payload.metadata) > 0
    /\ sent[u].payload.attributes[1].value.values[1].startTime
         # sent[c].payload.attributes[1].value.values[1].startTime
    /\ Len(sent[u].payload.relationships) = 2

====
